---- MODULE Spec2Model ----
(***************************************************************************)
(* A model of rnn-speech's corpus ingestion (util/dataprocessor.py), of its *)
(* hyper parameter / checkpoint reconciliation (util/hyperparams.py) and of *)
(* its batch fetching and training loop (models/AcousticModel.py).          *)
(***************************************************************************)
EXTENDS Integers, Sequences, FiniteSets, TLC

VARIABLES
    hp_dirs,    \* the directories that exist under the checkpoint roots
    hp_files,   \* the snapshot files: file path |-> pickled dictionary
    hp_clock,   \* int(time.time())
    hp_n,       \* the number of HyperParameterHandler startups so far
    hp_last,    \* what the last startup was given and what it did
    dp_file_cache,  \* whether the deployment names a cache file (file_cache is not None)
    dp_cache,   \* the file at file_cache
    dp_prev,    \* the DataProcessor.run call before the last one
    dp_last,    \* the last DataProcessor.run call: its inputs and what it did
    gt_last,    \* the last get_type call: the files under its root and its result
    td_last,    \* the last get_data_tedlium call: its .stm lines and what it did
    gb,         \* a getBatch call in progress: its arguments and its locals
    am_params,  \* train's arguments and the model's batch_size
    am_train_set,   \* the list train_set, as the training process holds it
    am_test_set,    \* the list test_set
    am_pc,      \* where the training process is in train / run_checkpoint
    am_train,   \* the locals of train
    am_ckpt,    \* the locals of the run_checkpoint call in progress
    am_loaders, \* per split, the loader processes started and not yet through
    am_pipes,   \* per split, what was sent into the pipe and not yet received
    am_started, \* per split, the number of loader processes started
    am_received,    \* per split, the number of batches received from the pipe
    am_step     \* the batch the last step was run on

hp_vars == <<hp_dirs, hp_files, hp_clock, hp_n, hp_last>>

dp_vars == <<dp_file_cache, dp_cache, dp_prev, dp_last>>

\* The variables of the calls that are modelled on their own.
am_vars == <<am_params, am_train_set, am_test_set, am_pc, am_train, am_ckpt,
             am_loaders, am_pipes, am_started, am_received, am_step>>

ext_vars == <<gt_last, td_last, gb, am_vars>>

vars == <<hp_vars, dp_vars, ext_vars>>

\* No get_type call has been made.
GTIdle == gt_last = [called |-> FALSE]

\* No get_data_tedlium call has been made.
TDIdle == td_last = [called |-> FALSE]

\* No getBatch call is being followed.
GBIdle == gb = [pc |-> "idle"]

\* train has not been called.
AMIdle ==
    /\ am_params = [called |-> FALSE]
    /\ am_train_set = <<>>
    /\ am_test_set = <<>>
    /\ am_pc = "idle"
    /\ am_train = <<>>
    /\ am_ckpt = <<>>
    /\ am_loaders = <<>>
    /\ am_pipes = <<>>
    /\ am_started = <<>>
    /\ am_received = <<>>
    /\ am_step = [split |-> "none"]

\* None of those calls has been made.
ExtIdle == GTIdle /\ TDIdle /\ GBIdle /\ AMIdle

(***************************************************************************)
(* Bounds                                                                  *)
(***************************************************************************)
MaxStartups == 3
MaxTime == 1
MaxRoots == 2
MaxLines == 2
MaxData == 3
MaxBatch == 2
MaxEpoch == 5

(***************************************************************************)
(* util/hyperparams.py                                                     *)
(***************************************************************************)

\* The checkpoint roots a config file may name (general.checkpoint_dir).
\* A path is the sequence of its components.
CheckpointRoots == {<<"ckpt">>}

\* The values a config file gives the fields.  dropout is in tenths.
LayerVals == {1, 2}
HiddenVals == {1, 2}
DropoutVals == {0, 5}
RateVals == {1, 2}

ArchFields == {"num_layers", "hidden_size", "dropout"}

\* The architectures the config files describe: a base one and one that
\* differs from it in each of the three fields.
ArchVals == {<<1, 1, 0>>, <<2, 1, 0>>, <<1, 2, 0>>, <<1, 1, 5>>}

\* readConfigFile: the dictionary a config file yields.  learning_rate stands
\* for all the fields that nothing in the handler reads.
ConfigParams ==
    {p \in [num_layers : LayerVals,
            hidden_size : HiddenVals,
            dropout : DropoutVals,
            learning_rate : RateVals,
            use_config_file_if_checkpoint_exists : BOOLEAN,
            checkpoint_dir : CheckpointRoots] :
        <<p.num_layers, p.hidden_size, p.dropout>> \in ArchVals}

\* os.path.join(a, b)
PathJoin(a, b) == Append(a, b)

\* self.file_path
SnapshotPath(dir) == PathJoin(dir, "hyperparams.p")

\* checkExists
checkExists(files, file_path) == file_path \in DOMAIN files

\* getParams
getParams(files, file_path) == files[file_path]

\* A save that writes no file.
saveParams_nothing(files, file_path, dic) == files

\* saveParams: open(file_path, 'wb') truncates or creates, then dumps dic.
saveParams(files, file_path, dic) ==
    [p \in DOMAIN files \cup {file_path} |->
        IF p = file_path THEN dic ELSE files[p]]

\* A checkChanged that compares every field the two dictionaries share, not
\* only the three of the architecture.
checkChanged_anyField(files, file_path, new_params) ==
    IF file_path \notin DOMAIN files THEN "same"
    ELSE IF \E f \in DOMAIN files[file_path] \cap (DOMAIN new_params \ {"checkpoint_dir"}) :
                files[file_path][f] # new_params[f]
         THEN "changed" ELSE "same"

\* A checkChanged that leaves dropout out of the comparison.
checkChanged_noDropout(files, file_path, new_params) ==
    IF file_path \notin DOMAIN files THEN "same"
    ELSE IF \/ files[file_path]["num_layers"] # new_params["num_layers"]
            \/ files[file_path]["hidden_size"] # new_params["hidden_size"]
         THEN "changed" ELSE "same"

\* checkChanged, with Python's left-to-right, short-circuit `or`: a field of
\* the old dictionary is read only when the fields before it are equal, and a
\* read of a missing key raises KeyError.
checkChanged(files, file_path, new_params) ==
    IF ~checkExists(files, file_path) THEN "same"
    ELSE LET old_params == getParams(files, file_path) IN
         IF "num_layers" \notin DOMAIN old_params THEN "KeyError"
         ELSE IF old_params["num_layers"] # new_params["num_layers"] THEN "changed"
         ELSE IF "hidden_size" \notin DOMAIN old_params THEN "KeyError"
         ELSE IF old_params["hidden_size"] # new_params["hidden_size"] THEN "changed"
         ELSE IF "dropout" \notin DOMAIN old_params THEN "KeyError"
         ELSE IF old_params["dropout"] # new_params["dropout"] THEN "changed"
         ELSE "same"

\* The name "{0}_hidden_size_{1}_numlayers_{2}_dropout_{3}": the format is
\* injective in its four arguments, so the name is the tuple of them.
NewCheckpointName(now, params) ==
    <<now, params["hidden_size"], params["num_layers"], params["dropout"]>>

\* os.makedirs(d, exist_ok=True): an existing directory is accepted.
makedirs_exist_ok(dirs, d) == [ok |-> TRUE, dirs |-> dirs \cup {d}]

\* A makedirs that creates nothing.
makedirs_skip(dirs, d) == [ok |-> TRUE, dirs |-> dirs]

\* os.makedirs(d) without exist_ok: FileExistsError when d exists.
makedirs(dirs, d) ==
    IF d \in dirs THEN [ok |-> FALSE, dirs |-> dirs]
    ELSE [ok |-> TRUE, dirs |-> dirs \cup {d}]

\* HyperParameterHandler.__init__ on the dictionary P read from the config
\* file: the outcome, the dictionary getHyperParams returns, and the file
\* system it leaves.
HandlerInit(P, dirs, files, now) ==
    LET ckpt == P["checkpoint_dir"]
        dirs1 == IF ckpt \notin dirs THEN makedirs(dirs, ckpt).dirs ELSE dirs
        file_path == SnapshotPath(ckpt)
        failed(err) == [outcome |-> err, branch |-> "none", hyper_params |-> P,
                        dirs |-> dirs1, files |-> files]
    IN
    IF checkExists(files, file_path) THEN
        LET changed == checkChanged(files, file_path, P) IN
        IF changed = "KeyError" THEN failed("KeyError")
        ELSE IF changed = "changed" THEN
            IF ~P["use_config_file_if_checkpoint_exists"] THEN
                [outcome |-> "ok", branch |-> "IncompatibleOverwrite",
                 hyper_params |-> getParams(files, file_path),
                 dirs |-> dirs1, files |-> files]
            ELSE
                LET new_checkpoint_dir == PathJoin(ckpt, NewCheckpointName(now, P))
                    made == makedirs(dirs1, new_checkpoint_dir)
                    params == [P EXCEPT !["checkpoint_dir"] = new_checkpoint_dir]
                IN
                IF ~made.ok THEN failed("FileExistsError")
                ELSE [outcome |-> "ok", branch |-> "IncompatibleBranch",
                      hyper_params |-> params,
                      dirs |-> made.dirs,
                      files |-> saveParams(files, SnapshotPath(new_checkpoint_dir), params)]
        ELSE
            [outcome |-> "ok", branch |-> "CompatibleResume", hyper_params |-> P,
             dirs |-> dirs1, files |-> files]
    ELSE
        [outcome |-> "ok", branch |-> "NoCheckpoint", hyper_params |-> P,
         dirs |-> dirs1, files |-> saveParams(files, file_path, P)]

\* No startup yet.
NoStartup ==
    [started |-> FALSE, P |-> <<>>, now |-> 0, pre_dirs |-> {}, pre_files |-> <<>>,
     outcome |-> "none", branch |-> "none", hyper_params |-> <<>>]

\* One process start: HyperParameterHandler(config_file) runs to its end.
HPStartup ==
    /\ hp_n < MaxStartups
    /\ \E P \in ConfigParams :
         LET r == HandlerInit(P, hp_dirs, hp_files, hp_clock) IN
         /\ hp_dirs' = r.dirs
         /\ hp_files' = r.files
         /\ hp_last' = [started |-> TRUE, P |-> P, now |-> hp_clock,
                        pre_dirs |-> hp_dirs, pre_files |-> hp_files,
                        outcome |-> r.outcome, branch |-> r.branch,
                        hyper_params |-> r.hyper_params]
    /\ hp_n' = hp_n + 1
    /\ UNCHANGED <<hp_clock, dp_vars, ext_vars>>

\* The wall clock reaches the next second.
HPTick ==
    /\ hp_clock < MaxTime
    /\ hp_clock' = hp_clock + 1
    /\ UNCHANGED <<hp_dirs, hp_files, hp_n, hp_last, dp_vars, ext_vars>>

\* The first start on a machine: a checkpoint root may exist, empty, or not.
\* No DataProcessor.run call has been made.
HPInit ==
    /\ hp_dirs \in SUBSET CheckpointRoots
    /\ hp_files = <<>>
    /\ hp_clock = 0
    /\ hp_n = 0
    /\ hp_last = NoStartup
    /\ dp_file_cache = FALSE
    /\ dp_cache = [state |-> "absent", roots |-> <<>>, data |-> <<>>]
    /\ dp_prev = [with_cache |-> FALSE, roots |-> <<>>, data |-> <<>>]
    /\ dp_last = [ran |-> FALSE]
    /\ ExtIdle

HPNext == HPStartup \/ HPTick

SpecHP == HPInit /\ [][HPNext]_vars

\* The dictionaries a snapshot file left by something other than this handler
\* may hold: a parameter set without one or more of the fields checkChanged
\* reads.
LegacySnapshots ==
    {[f \in DOMAIN p \ D |-> p[f]] : p \in ConfigParams, D \in (SUBSET ArchFields) \ {{}}}

\* A start on a checkpoint root that already holds such a snapshot file.
HPInitLegacy ==
    /\ hp_dirs = CheckpointRoots
    /\ \E root \in CheckpointRoots, s \in LegacySnapshots :
          hp_files = (SnapshotPath(root) :> s)
    /\ hp_clock = 0
    /\ hp_n = 0
    /\ hp_last = NoStartup
    /\ dp_file_cache = FALSE
    /\ dp_cache = [state |-> "absent", roots |-> <<>>, data |-> <<>>]
    /\ dp_prev = [with_cache |-> FALSE, roots |-> <<>>, data |-> <<>>]
    /\ dp_last = [ran |-> FALSE]
    /\ ExtIdle

SpecHPLegacy == HPInitLegacy /\ [][HPNext]_vars

(***************************************************************************)
(* util/dataprocessor.py                                                   *)
(***************************************************************************)

\* The corpus roots on disk.  files: the kinds of file names found under the
\* root (a marker file is named by the suffix get_type looks for); samples:
\* what the parser of the root's layout returns for it, in its order.
Corpus ==
    [lib |-> [files |-> {".trans.txt", ".flac"},
              samples |-> << <<"lib/a.flac", "hello", <<>> >>,
                             <<"lib/b.flac", "world", <<>> >> >>],
     vys |-> [files |-> {".trn", ".wav"},
              samples |-> << <<"vys/c.wav", "yes", <<>> >> >>],
     ted |-> [files |-> {".stm"},
              samples |-> << >>],
     dir |-> [files |-> {".wav"},
              samples |-> << >>]]

\* audio_processor.get_audio_file_length
AudioLength ==
    [f \in {"lib/a.flac", "lib/b.flac", "vys/c.wav"} |->
        CASE f = "lib/a.flac" -> 2
          [] f = "lib/b.flac" -> 1
          [] f = "vys/c.wav" -> 2]

\* raw_data_paths: a comma separated string always splits into at least one
\* path.  The lists tried name a root once.
RootLists ==
    {l \in UNION {[1..n -> DOMAIN Corpus] : n \in 1..MaxRoots} :
        \A i, j \in DOMAIN l : l[i] = l[j] => i = j}

\* os.walk(root_search_path): the kinds of file names met under the root.
Walk(root_search_path) == Corpus[root_search_path].files

\* find_files: of the files the walk meets, those whose name ends with the
\* extension.
find_files(walked, files_extension) ==
    {f \in walked : f = files_extension}

\* A classification that looks for .stm before .trn.
TypeOfFiles_stmFirst(walked) ==
    IF find_files(walked, ".stm") # {} THEN "TEDLIUM"
    ELSE IF find_files(walked, ".trn") # {} THEN "Vystadial_2013"
    ELSE IF find_files(walked, "index.tags.txt") # {} THEN "Shtooka"
    ELSE IF find_files(walked, ".trans.txt") # {} THEN "LibriSpeech"
    ELSE "Unrecognized"

\* The body of get_type, on what the walks of the root meet.
TypeOfFiles(walked) ==
    IF find_files(walked, ".trn") # {} THEN "Vystadial_2013"
    ELSE IF find_files(walked, ".stm") # {} THEN "TEDLIUM"
    ELSE IF find_files(walked, "index.tags.txt") # {} THEN "Shtooka"
    ELSE IF find_files(walked, ".trans.txt") # {} THEN "LibriSpeech"
    ELSE "Unrecognized"

\* get_type
get_type(raw_data_path) == TypeOfFiles(Walk(raw_data_path))

\* get_data_shtooka, get_data_vystadial_2013, get_data_tedlium,
\* get_data_librispeech: the samples the layout's parser finds under the root,
\* each with no length.
get_data(data_type, raw_data_path) == Corpus[raw_data_path].samples

\* A scan that passes over a root of unknown layout.
RECURSIVE ScanRoots_skipUnknown(_, _, _)
ScanRoots_skipUnknown(paths, data, calls) ==
    IF paths = <<>> THEN [outcome |-> "ok", data |-> data, parser_calls |-> calls]
    ELSE IF get_type(Head(paths)) = "Unrecognized"
         THEN ScanRoots_skipUnknown(Tail(paths), data, calls)
         ELSE ScanRoots_skipUnknown(Tail(paths),
                  data \o get_data(get_type(Head(paths)), Head(paths)), calls + 1)

\* The loop of run over raw_data_paths: the samples of the roots in order, the
\* number of parser calls made, and the exception of the first root that is of
\* none of the four layouts.
RECURSIVE ScanRoots(_, _, _)
ScanRoots(paths, data, calls) ==
    IF paths = <<>> THEN [outcome |-> "ok", data |-> data, parser_calls |-> calls]
    ELSE LET path == Head(paths)
             data_type == get_type(path)
         IN IF data_type \in {"Shtooka", "Vystadial_2013", "TEDLIUM", "LibriSpeech"}
            THEN ScanRoots(Tail(paths), data \o get_data(data_type, path), calls + 1)
            ELSE [outcome |-> "UnknownFormat", data |-> <<>>, parser_calls |-> calls]

\* A test for missing data that an empty list passes.
NoData_isNone(data) == FALSE

\* len(data) == 0
NoData(data) == Len(data) = 0

\* add_audio_file_length: every sample gets the length of its audio file.
add_audio_file_length(file_list) ==
    [i \in 1..Len(file_list) |->
        <<file_list[i][1], file_list[i][2], <<AudioLength[file_list[i][1]]>> >>]

\* An insertion that puts x in front of the elements whose key equals its own.
RECURSIVE InsertByLength_beforeEqual(_, _)
InsertByLength_beforeEqual(x, s) ==
    IF s = <<>> THEN <<x>>
    ELSE IF x[3][1] <= Head(s)[3][1] THEN <<x>> \o s
    ELSE <<Head(s)>> \o InsertByLength_beforeEqual(x, Tail(s))

\* sorted(data, key=lambda data: data[2]): ascending and stable.  x is put
\* behind every element whose key is not greater than its own.
RECURSIVE InsertByLength(_, _)
InsertByLength(x, s) ==
    IF s = <<>> THEN <<x>>
    ELSE IF x[3][1] < Head(s)[3][1] THEN <<x>> \o s
    ELSE <<Head(s)>> \o InsertByLength(x, Tail(s))

RECURSIVE SortedFrom(_, _)
SortedFrom(rest, acc) ==
    IF rest = <<>> THEN acc
    ELSE SortedFrom(Tail(rest), InsertByLength(Head(rest), acc))

sorted(data) == SortedFrom(data, <<>>)

\* shuffle(data): the orders it may leave the list in.
Shuffles(data) ==
    {[i \in 1..Len(data) |-> data[p[i]]] : p \in Permutations(1..Len(data))}

\* The cache file: absent, unreadable by pickle, or the pickled pair
\* [raw_data_paths, data].
NoCache == [state |-> "absent", roots |-> <<>>, data |-> <<>>]
UnreadableCache == [state |-> "unreadable", roots |-> <<>>, data |-> <<>>]

\* save_filelist
save_filelist(raw_data_paths, data) ==
    [state |-> "record", roots |-> raw_data_paths, data |-> data]

\* A load that takes a cache whose roots are the same set of paths.
load_filelist_anyOrder(cache, raw_data_paths) ==
    IF cache.state = "record"
         /\ {cache.roots[i] : i \in DOMAIN cache.roots}
              = {raw_data_paths[i] : i \in DOMAIN raw_data_paths}
    THEN [outcome |-> "hit", data |-> cache.data]
    ELSE [outcome |-> "miss", data |-> <<>>]

\* load_filelist: None when the file is missing or was saved for other roots;
\* pickle.load, or the unpacking of what it loaded, raises on a file that is
\* not such a pair.
load_filelist(cache, raw_data_paths) ==
    IF cache.state = "absent" THEN [outcome |-> "miss", data |-> <<>>]
    ELSE IF cache.state = "unreadable" THEN [outcome |-> "CacheError", data |-> <<>>]
    ELSE IF cache.roots = raw_data_paths THEN [outcome |-> "hit", data |-> cache.data]
    ELSE [outcome |-> "miss", data |-> <<>>]

\* DataProcessor.run, past the cache: the results it may end with.
ScanResults(raw_data_paths, size_ordering, use_cache, cache) ==
    LET scan == ScanRoots(raw_data_paths, <<>>, 0)
        failed(err) == [outcome |-> err, data |-> <<>>, parser_calls |-> scan.parser_calls,
                        order |-> "none", cache |-> cache]
        done(data, order) ==
            [outcome |-> "ok", data |-> data, parser_calls |-> scan.parser_calls,
             order |-> order,
             cache |-> IF use_cache THEN save_filelist(raw_data_paths, data) ELSE cache]
    IN
    IF scan.outcome # "ok" THEN {failed(scan.outcome)}
    ELSE IF NoData(scan.data) THEN {failed("EmptyCorpus")}
    ELSE IF size_ordering
         THEN {done(sorted(add_audio_file_length(scan.data)), "sorted")}
         ELSE {done(d, "shuffled") : d \in Shuffles(scan.data)}

\* DataProcessor.run: the results it may end with.
RunResults(raw_data_paths, size_ordering, use_cache, cache) ==
    LET loaded == IF use_cache THEN load_filelist(cache, raw_data_paths)
                  ELSE [outcome |-> "miss", data |-> <<>>]
    IN
    IF loaded.outcome = "CacheError"
    THEN {[outcome |-> "CacheError", data |-> <<>>, parser_calls |-> 0,
           order |-> "none", cache |-> cache]}
    ELSE IF loaded.outcome = "hit"
    THEN {[outcome |-> "ok", data |-> loaded.data, parser_calls |-> 0,
           order |-> "none", cache |-> cache]}
    ELSE ScanResults(raw_data_paths, size_ordering, use_cache, cache)

\* No call yet.
NoRun ==
    [ran |-> FALSE, roots |-> <<>>, size_ordering |-> FALSE, use_cache |-> FALSE,
     pre_cache |-> NoCache, outcome |-> "none", data |-> <<>>, parser_calls |-> 0,
     order |-> "none"]

\* What is kept of a call when the next one is made: whether it returned a
\* list with a cache file in use, and then its roots and the list.
Returned(call) ==
    IF call.ran /\ call.use_cache /\ call.outcome = "ok"
    THEN [with_cache |-> TRUE, roots |-> call.roots, data |-> call.data]
    ELSE [with_cache |-> FALSE, roots |-> <<>>, data |-> <<>>]

\* One DataProcessor(raw_data_paths, audio_processor, file_cache,
\* size_ordering).run() from its first line to its return or exception.
DPRun ==
    /\ \E roots \in RootLists, size_ordering \in BOOLEAN :
         \E r \in RunResults(roots, size_ordering, dp_file_cache, dp_cache) :
            /\ dp_cache' = r.cache
            /\ dp_last' = [ran |-> TRUE, roots |-> roots, size_ordering |-> size_ordering,
                           use_cache |-> dp_file_cache, pre_cache |-> dp_cache,
                           outcome |-> r.outcome, data |-> r.data,
                           parser_calls |-> r.parser_calls, order |-> r.order]
    /\ dp_prev' = Returned(dp_last)
    /\ UNCHANGED <<dp_file_cache, hp_vars, ext_vars>>

\* The cache file is left unreadable: a save that was interrupted after
\* open(file_cache, 'wb') truncated it, or a file that is not a pickle.
CorruptCache ==
    /\ dp_file_cache
    /\ dp_cache.state # "unreadable"
    /\ dp_cache' = UnreadableCache
    /\ UNCHANGED <<dp_file_cache, dp_prev, dp_last, hp_vars, ext_vars>>

\* Before the first call: the training script is set up with a file_cache or
\* without one, no cache file is there yet, and no handler has started.
DPInit ==
    /\ dp_file_cache \in BOOLEAN
    /\ dp_cache = NoCache
    /\ dp_prev = Returned(NoRun)
    /\ dp_last = NoRun
    /\ hp_dirs = {}
    /\ hp_files = <<>>
    /\ hp_clock = 0
    /\ hp_n = 0
    /\ hp_last = NoStartup
    /\ ExtIdle

\* The cache file is written by run only.
DPNext == DPRun

SpecDP == DPInit /\ [][DPNext]_vars

\* The cache file may also be damaged between two calls.
DPEnvNext == DPRun \/ CorruptCache

SpecDPEnv == DPInit /\ [][DPEnvNext]_vars

\* No HyperParameterHandler has started and DataProcessor.run has not been
\* called.
HPDPIdle ==
    /\ hp_dirs = {}
    /\ hp_files = <<>>
    /\ hp_clock = 0
    /\ hp_n = 0
    /\ hp_last = NoStartup
    /\ dp_file_cache = FALSE
    /\ dp_cache = NoCache
    /\ dp_prev = Returned(NoRun)
    /\ dp_last = NoRun

\* The kinds of file a directory given as a root may hold: the four markers,
\* audio files, and a text file that is no marker.
FileKinds == {".trn", ".stm", "index.tags.txt", ".trans.txt", ".wav", ".flac", ".txt"}

\* One get_type call on a root that holds files of some of the kinds.
GetType ==
    /\ \E walked \in SUBSET FileKinds :
          gt_last' = [called |-> TRUE, files |-> walked, type |-> TypeOfFiles(walked)]
    /\ UNCHANGED <<hp_vars, dp_vars, td_last, gb, am_vars>>

\* No get_type call has been made, nor any other call.
GTInit ==
    /\ gt_last = [called |-> FALSE]
    /\ TDIdle /\ GBIdle /\ AMIdle /\ HPDPIdle

GTNext == GetType

SpecGT == GTInit /\ [][GTNext]_vars

\* The non-empty lines of a .stm file, as line.split(' ', maxsplit=6) gives
\* them: talk id, channel, speaker, start, end, label, transcript.  The empty
\* line is the empty list.
StmLines ==
    {<<"talk", "1", speaker, start, start + 1, "<o>", transcript>> :
        speaker \in {"spk", "inter_segment_gap"}, start \in {0, 1},
        transcript \in {"Hello, World.", "ignore_time_segment_in_scoring"}}

\* f.read().split("\n") of the .stm files under a root.
StmFiles ==
    UNION {[1..n -> StmLines \cup {<<>>}] : n \in 1..MaxLines}

\* directory + "/../sph/{0}_{1}.wav".format(line_list[0], start)
WavFile(line_list) == <<line_list[1], line_list[4]>>

\* The per-segment wav files that may be there before the call.
WavFiles == {WavFile(l) : l \in StmLines}

\* audio_processor.extractWavFromSph: it returns True or nothing after writing
\* the wav file, False after a failure that leaves none.
ExtractResults == {"True", "None", "False"}

\* clean_label on the transcripts of StmLines.
clean_label(_str) ==
    CASE _str = "Hello, World." -> "hello world"
      [] _str = "ignore_time_segment_in_scoring" -> "ignore time segment in scoring"

\* A loop body that keeps the sample only when the extraction returned True.
TedLine_keepIfTrue(line, wavs, extract) ==
    IF line = <<>> THEN [called |-> FALSE, kept |-> FALSE, wavs |-> wavs]
    ELSE IF line[3] # "inter_segment_gap" /\ line[7] # "ignore_time_segment_in_scoring"
    THEN LET wav_file == WavFile(line)
             called == wav_file \notin wavs
         IN [called |-> called,
             kept |-> called /\ extract = "True",
             wavs |-> IF called /\ extract # "False" THEN wavs \cup {wav_file} ELSE wavs]
    ELSE [called |-> FALSE, kept |-> FALSE, wavs |-> wavs]

\* The loop body of get_data_tedlium on one line: whether the extraction is
\* called, whether the sample is appended, and the wav files afterwards.
\* extract is what the extraction returns if it is called.
TedLine(line, wavs, extract) ==
    IF line = <<>> THEN [called |-> FALSE, kept |-> FALSE, wavs |-> wavs]
    ELSE IF line[3] # "inter_segment_gap" /\ line[7] # "ignore_time_segment_in_scoring"
    THEN LET wav_file == WavFile(line)
             called == wav_file \notin wavs
             extract_result == IF called THEN extract ELSE "None"
         IN [called |-> called,
             kept |-> extract_result # "False",
             wavs |-> IF called /\ extract # "False" THEN wavs \cup {wav_file} ELSE wavs]
    ELSE [called |-> FALSE, kept |-> FALSE, wavs |-> wavs]

\* get_data_tedlium on the lines from the i-th on: result is the list being
\* built, log what was done at each line so far.
RECURSIVE TedScan(_, _, _, _, _, _)
TedScan(lines, i, wavs, extracts, result, log) ==
    IF i > Len(lines) THEN [result |-> result, log |-> log, wavs |-> wavs]
    ELSE LET line == lines[i]
             done == TedLine(line, wavs, extracts[i])
         IN TedScan(lines, i + 1, done.wavs, extracts,
                IF done.kept
                THEN Append(result, <<WavFile(line), clean_label(line[7]), <<>> >>)
                ELSE result,
                Append(log, [existed |-> line # <<>> /\ WavFile(line) \in wavs,
                             called |-> done.called, kept |-> done.kept]))

get_data_tedlium(lines, wavs, extracts) == TedScan(lines, 1, wavs, extracts, <<>>, <<>>)

\* The get_data_tedlium call of a run, on a root with one .stm file.
GetDataTedlium ==
    /\ ~td_last.called
    /\ \E lines \in StmFiles, wavs \in SUBSET WavFiles :
         \E extracts \in [1..Len(lines) -> ExtractResults] :
            LET r == get_data_tedlium(lines, wavs, extracts) IN
            td_last' = [called |-> TRUE, lines |-> lines, pre_wavs |-> wavs,
                        extracts |-> extracts, result |-> r.result, log |-> r.log,
                        wavs |-> r.wavs]
    /\ UNCHANGED <<hp_vars, dp_vars, gt_last, gb, am_vars>>

\* No get_data_tedlium call has been made, nor any other call.
TDInit ==
    /\ td_last = [called |-> FALSE]
    /\ GTIdle /\ GBIdle /\ AMIdle /\ HPDPIdle

TDNext == GetDataTedlium

SpecTD == TDInit /\ [][TDNext]_vars

(***************************************************************************)
(* models/AcousticModel.py: getBatch                                       *)
(***************************************************************************)

\* max_target_seq_length and max_input_seq_length of the model, as the config
\* file sets them.
max_target_seq_length == 4
max_input_seq_length == 2

\* A sample [audio file, text]; a text is the list of its characters.  The
\* second has punctuation, the third a character getStrLabels does not allow,
\* the fourth too long a text, the fifth too long an audio file.
Samples ==
    { <<"a.flac", <<"h", "i">> >>,
      <<"b.flac", <<"h", "i", "!">> >>,
      <<"c.flac", <<"h", "1">> >>,
      <<"d.flac", <<"h", "i", " ", "h", "i">> >>,
      <<"e.flac", <<"h", "i">> >> }

\* audio_processor.processFLACAudio: the length of the feature vector of the
\* file, before padding.
original_feat_vec_length(audio_file) == IF audio_file = "e.flac" THEN 3 ELSE 1

\* The datasets a getBatch call may be given: not empty.
Datasets == UNION {[1..n -> Samples] : n \in 1..MaxData}

allowed_chars ==
    <<"a", "b", "c", "d", "e", "f", "g", "h", "i", "j", "k", "l", "m", "n", "o",
      "p", "q", "r", "s", "t", "u", "v", "w", "x", "y", "z", " ", ".", "'", "-", "_">>

\* The characters getStrLabels removes.
Punctuation == {".", ",", "?", "'", "!", ":"}

\* getStrLabels: the index in allowed_chars of every character left after the
\* punctuation is removed and "_" is added; str.index raises ValueError on a
\* character that is not allowed.
getStrLabels(_str) ==
    LET eos == Append(SelectSeq(_str, LAMBDA char : char \notin Punctuation), "_")
        allowed(char) == \E k \in DOMAIN allowed_chars : allowed_chars[k] = char
    IN IF \A i \in DOMAIN eos : allowed(eos[i])
       THEN [ok |-> TRUE,
             labels |-> [i \in DOMAIN eos |->
                           (CHOOSE k \in DOMAIN allowed_chars : allowed_chars[k] = eos[i]) - 1]]
       ELSE [ok |-> FALSE, labels |-> <<>>]

\* The locals of getBatch before the first pass of its loop.  input_files
\* are the files whose feature vectors are in input_feat_vecs.
GetBatchEntry(batch_pointer) ==
    [batch_pointer |-> batch_pointer, batch_counter |-> 0,
     input_files |-> <<>>, target_lengths |-> <<>>]

\* One pass of the while loop of getBatch: the sample at batch_pointer is
\* taken and the pointer moved on, to 0 from the end; the sample is passed
\* over when its text has no labels, or its labels or its audio are too long.
GetBatchPass(dataset, st) ==
    LET file_text == dataset[st.batch_pointer + 1]
        batch_pointer == IF st.batch_pointer + 1 = Len(dataset) THEN 0
                         ELSE st.batch_pointer + 1
        labels == getStrLabels(file_text[2])
    IN IF ~labels.ok THEN [st EXCEPT !.batch_pointer = batch_pointer]
       ELSE IF \/ Len(labels.labels) > max_target_seq_length
               \/ original_feat_vec_length(file_text[1]) > max_input_seq_length
       THEN [st EXCEPT !.batch_pointer = batch_pointer]
       ELSE [batch_pointer |-> batch_pointer,
             batch_counter |-> st.batch_counter + 1,
             input_files |-> Append(st.input_files, file_text[1]),
             target_lengths |-> Append(st.target_lengths, Len(labels.labels))]

\* The getBatch call followed: getBatch(dataset, batch_pointer, is_train) of a
\* model with the batch_size, about to test the condition of its loop.
GBCall(dataset, batch_size, batch_pointer) ==
    [pc |-> "loop", dataset |-> dataset, batch_size |-> batch_size,
     locals |-> GetBatchEntry(batch_pointer)]

\* The loop condition holds: the body is entered.
GetBatchLoop ==
    /\ gb.pc = "loop"
    /\ gb.locals.batch_counter < gb.batch_size
    /\ gb' = [gb EXCEPT !.pc = "body"]
    /\ UNCHANGED <<hp_vars, dp_vars, gt_last, td_last, am_vars>>

\* The body is run to its end or to a continue, back to the loop condition.
GetBatchBody ==
    /\ gb.pc = "body"
    /\ gb' = [gb EXCEPT !.pc = "loop", !.locals = GetBatchPass(gb.dataset, gb.locals)]
    /\ UNCHANGED <<hp_vars, dp_vars, gt_last, td_last, am_vars>>

\* The loop condition fails: the batch and the pointer are sent or returned.
GetBatchReturn ==
    /\ gb.pc = "loop"
    /\ gb.locals.batch_counter >= gb.batch_size
    /\ gb' = [gb EXCEPT !.pc = "returned"]
    /\ UNCHANGED <<hp_vars, dp_vars, gt_last, td_last, am_vars>>

\* getBatch is called on a dataset that is not empty, with a pointer into it,
\* by a model whose batch_size is at least 1.
GBInit ==
    /\ gb \in {GBCall(dataset, batch_size, batch_pointer) :
                 dataset \in Datasets, batch_size \in 1..MaxBatch,
                 batch_pointer \in 0..(MaxData - 1)}
    /\ gb.locals.batch_pointer < Len(gb.dataset)
    /\ GTIdle /\ TDIdle /\ AMIdle /\ HPDPIdle

GBNext == GetBatchLoop \/ GetBatchBody \/ GetBatchReturn

\* The process that runs getBatch keeps running it.
SpecGB == GBInit /\ [][GBNext]_vars /\ WF_vars(GBNext)

(***************************************************************************)
(* models/AcousticModel.py: train and run_checkpoint                       *)
(***************************************************************************)

\* The sample is one getBatch takes into a batch.
Accepted(file_text) ==
    /\ getStrLabels(file_text[2]).ok
    /\ Len(getStrLabels(file_text[2]).labels) <= max_target_seq_length
    /\ original_feat_vec_length(file_text[1]) <= max_input_seq_length

\* The while loop of getBatch comes to an end on the dataset: it has nothing
\* to collect, or a sample that passes its tests.
GetBatchEnds(dataset, batch_size) ==
    batch_size = 0 \/ \E i \in DOMAIN dataset : Accepted(dataset[i])

\* The while loop of getBatch from the locals st to its end.
RECURSIVE GetBatchRun(_, _, _)
GetBatchRun(dataset, batch_size, st) ==
    IF st.batch_counter >= batch_size THEN st
    ELSE GetBatchRun(dataset, batch_size, GetBatchPass(dataset, st))

\* getBatch(dataset, batch_pointer, is_train) of a model with the batch_size:
\* the list it sends or returns, whose last element is the batch pointer.
getBatch(dataset, batch_pointer, batch_size) ==
    LET st == GetBatchRun(dataset, batch_size, GetBatchEntry(batch_pointer))
    IN [input_files |-> st.input_files, target_lengths |-> st.target_lengths,
        batch_pointer |-> st.batch_pointer]

\* getNumBatches
getNumBatches(dataset, batch_size) == Len(dataset) \div batch_size

SampleOf(audio_file) == CHOOSE file_text \in Samples : file_text[1] = audio_file

\* The train sets and the test sets train is called with.  The first train
\* set is shorter than a batch of two, the last has a sample that getBatch
\* passes over; a test set may be too short for one batch, and the last one
\* has no sample getBatch accepts.
TrainSets ==
    { <<SampleOf("a.flac")>>,
      <<SampleOf("a.flac"), SampleOf("b.flac")>>,
      <<SampleOf("c.flac"), SampleOf("b.flac")>> }

TestSets ==
    { <<>>,
      <<SampleOf("b.flac"), SampleOf("a.flac")>>,
      <<SampleOf("c.flac")>> }

\* steps_per_checkpoint and batch_size as the config file sets them.
CheckpointSteps == {1, 2}
BatchSizes == {1, 2}

Splits == {"train", "test"}

\* Process(target=self.getBatch, args=(dataset, batch_pointer, is_train)):
\* the new process has the list as it is when it is started.
Loader(dataset, batch_pointer) == [dataset |-> dataset, batch_pointer |-> batch_pointer]

\* A run_checkpoint loop that starts a loader after every batch received.
StartsNextTestLoader_always(i, num_test_batches) == TRUE

\* if i != num_test_batches - 1
StartsNextTestLoader(i, num_test_batches) == i # num_test_batches - 1

\* A train loop that shuffles after every step.
ShuffleDue_always(current_step, num_train_batches) == TRUE

\* if current_step % num_train_batches == 0
ShuffleDue(current_step, num_train_batches) == current_step % num_train_batches = 0

\* The end of a pass of the while loop of train that did not break, after
\* current_step steps: the modulo raises ZeroDivisionError when the train set
\* is shorter than a batch; else the train set is shuffled in place if a
\* round over it is done, and the loop goes on or ends.
EndOfPass(current_step, running) ==
    IF am_train.num_train_batches = 0
    THEN am_pc' = "ZeroDivisionError" /\ UNCHANGED am_train_set
    ELSE /\ IF ShuffleDue(current_step, am_train.num_train_batches)
            THEN am_train_set' \in Shuffles(am_train_set)
            ELSE UNCHANGED am_train_set
         /\ am_pc' = IF running THEN "loop" ELSE "done"

\* train, from its first line to the while loop: with async_get_batch the
\* pipes are set up and the first train loader is started.
TrainStart ==
    /\ am_pc = "start"
    /\ am_train' = [num_train_batches |->
                        getNumBatches(am_train_set, am_params.batch_size),
                    train_batch_pointer |-> 0, current_step |-> 0,
                    no_improvement_since |-> 0, running |-> TRUE]
    /\ IF am_params.async_get_batch
       THEN /\ am_loaders' = [am_loaders EXCEPT !.train = Append(@, Loader(am_train_set, 0))]
            /\ am_started' = [am_started EXCEPT !.train = @ + 1]
       ELSE UNCHANGED <<am_loaders, am_started>>
    /\ am_pc' = "loop"
    /\ UNCHANGED <<am_params, am_train_set, am_test_set, am_ckpt, am_pipes,
                   am_received, am_step>>
    /\ UNCHANGED <<hp_vars, dp_vars, gt_last, td_last, gb>>

\* One pass of the while loop of train, up to the recv of run_checkpoint if
\* the pass comes to one: the batch is received from the pipe and the next
\* loader started, or the batch is fetched by a call; the step is run; the
\* learning rate is lowered after six steps without improvement and the loop
\* left when it is too low; the step is counted; at a checkpoint
\* run_checkpoint is entered and, with test batches to run, its first test
\* loader started.
TrainStep ==
    /\ am_pc = "loop"
    /\ IF am_params.async_get_batch THEN am_pipes.train # <<>>
       ELSE GetBatchEnds(am_train_set, am_params.batch_size)
    /\ LET async == am_params.async_get_batch
           batch_size == am_params.batch_size
           train_batch_pointer == am_train.train_batch_pointer
           step_batch_inputs ==
               IF async THEN Head(am_pipes.train)
               ELSE getBatch(am_train_set, train_batch_pointer, batch_size)
           loaders1 ==
               IF async
               THEN [am_loaders EXCEPT
                        !.train = Append(@, Loader(am_train_set, train_batch_pointer))]
               ELSE am_loaders
           started1 == IF async THEN [am_started EXCEPT !.train = @ + 1] ELSE am_started
           current_step == am_train.current_step + 1
           running == ~(current_step > am_params.max_epoch)
           num_test_batches == getNumBatches(am_test_set, batch_size)
       IN
       /\ am_pipes' = IF async THEN [am_pipes EXCEPT !.train = Tail(@)] ELSE am_pipes
       /\ am_received' = IF async THEN [am_received EXCEPT !.train = @ + 1]
                         ELSE am_received
       /\ am_step' = [split |-> "train", batch |-> step_batch_inputs,
                      sync |-> getBatch(am_train_set, train_batch_pointer, batch_size)]
       /\ \E worse \in BOOLEAN, too_low \in BOOLEAN :
            LET decay == worse /\ am_train.no_improvement_since + 1 = 6
                no_improvement_since ==
                    IF worse /\ ~decay THEN am_train.no_improvement_since + 1 ELSE 0
            IN
            IF decay /\ too_low
            THEN /\ am_train' = [am_train EXCEPT
                                    !.train_batch_pointer = step_batch_inputs.batch_pointer,
                                    !.no_improvement_since = 0]
                 /\ am_pc' = "done"
                 /\ am_loaders' = loaders1
                 /\ am_started' = started1
                 /\ UNCHANGED <<am_train_set, am_ckpt>>
            ELSE /\ am_train' = [am_train EXCEPT
                                    !.train_batch_pointer = step_batch_inputs.batch_pointer,
                                    !.no_improvement_since = no_improvement_since,
                                    !.current_step = current_step,
                                    !.running = running]
                 /\ IF current_step % am_params.steps_per_checkpoint = 0
                       /\ num_test_batches > 0
                    THEN /\ am_ckpt' = [num_test_batches |-> num_test_batches,
                                        test_batch_pointer |-> 0, i |-> 0]
                         /\ am_loaders' =
                               IF async
                               THEN [loaders1 EXCEPT !.test = Append(@, Loader(am_test_set, 0))]
                               ELSE loaders1
                         /\ am_started' = IF async THEN [started1 EXCEPT !.test = @ + 1]
                                          ELSE started1
                         /\ am_pc' = "checkpoint"
                         /\ UNCHANGED am_train_set
                    ELSE /\ am_loaders' = loaders1
                         /\ am_started' = started1
                         /\ UNCHANGED am_ckpt
                         /\ EndOfPass(current_step, running)
    /\ UNCHANGED <<am_params, am_test_set>>
    /\ UNCHANGED <<hp_vars, dp_vars, gt_last, td_last, gb>>

\* One pass of the for loop of run_checkpoint and, after the last one, the
\* rest of the pass of train's loop that called it.
CheckpointStep ==
    /\ am_pc = "checkpoint"
    /\ IF am_params.async_get_batch THEN am_pipes.test # <<>>
       ELSE GetBatchEnds(am_test_set, am_params.batch_size)
    /\ LET async == am_params.async_get_batch
           batch_size == am_params.batch_size
           test_batch_pointer == am_ckpt.test_batch_pointer
           eval_inputs ==
               IF async THEN Head(am_pipes.test)
               ELSE getBatch(am_test_set, test_batch_pointer, batch_size)
           starts == async /\ StartsNextTestLoader(am_ckpt.i, am_ckpt.num_test_batches)
       IN
       /\ am_pipes' = IF async THEN [am_pipes EXCEPT !.test = Tail(@)] ELSE am_pipes
       /\ am_received' = IF async THEN [am_received EXCEPT !.test = @ + 1]
                         ELSE am_received
       /\ am_loaders' =
             IF starts
             THEN [am_loaders EXCEPT
                      !.test = Append(@, Loader(am_test_set, test_batch_pointer))]
             ELSE am_loaders
       /\ am_started' = IF starts THEN [am_started EXCEPT !.test = @ + 1] ELSE am_started
       /\ am_step' = [split |-> "test", batch |-> eval_inputs,
                      sync |-> getBatch(am_test_set, test_batch_pointer, batch_size)]
       /\ am_ckpt' = [am_ckpt EXCEPT !.test_batch_pointer = eval_inputs.batch_pointer,
                                     !.i = @ + 1]
       /\ IF am_ckpt.i + 1 = am_ckpt.num_test_batches
          THEN EndOfPass(am_train.current_step, am_train.running)
          ELSE UNCHANGED <<am_pc, am_train_set>>
    /\ UNCHANGED <<am_params, am_test_set, am_train>>
    /\ UNCHANGED <<hp_vars, dp_vars, gt_last, td_last, gb>>

\* A loader process of the split comes to the end of getBatch and sends the
\* batch and the batch pointer into the split's pipe.
LoaderSends(split) ==
    /\ am_pc \notin {"idle", "start"}
    /\ \E k \in DOMAIN am_loaders[split] :
         LET loader == am_loaders[split][k] IN
         /\ GetBatchEnds(loader.dataset, am_params.batch_size)
         /\ am_pipes' = [am_pipes EXCEPT
                            ![split] = Append(@, getBatch(loader.dataset,
                                                 loader.batch_pointer,
                                                 am_params.batch_size))]
         /\ am_loaders' = [am_loaders EXCEPT
                              ![split] = [j \in 1..(Len(@) - 1) |->
                                             IF j < k THEN @[j] ELSE @[j + 1]]]
    /\ UNCHANGED <<am_params, am_train_set, am_test_set, am_pc, am_train, am_ckpt,
                   am_started, am_received, am_step>>
    /\ UNCHANGED <<hp_vars, dp_vars, gt_last, td_last, gb>>

\* train(sess, test_set, train_set, steps_per_checkpoint, checkpoint_dir,
\* async_get_batch, max_epoch) is called.
AMInit ==
    /\ am_params \in [batch_size : BatchSizes, steps_per_checkpoint : CheckpointSteps,
                       async_get_batch : BOOLEAN, max_epoch : 0..MaxEpoch]
    /\ am_train_set \in TrainSets
    /\ am_test_set \in TestSets
    /\ am_pc = "start"
    /\ am_train = <<>>
    /\ am_ckpt = <<>>
    /\ am_loaders = [split \in Splits |-> <<>>]
    /\ am_pipes = [split \in Splits |-> <<>>]
    /\ am_started = [split \in Splits |-> 0]
    /\ am_received = [split \in Splits |-> 0]
    /\ am_step = [split |-> "none"]
    /\ GTIdle /\ TDIdle /\ GBIdle /\ HPDPIdle

AMNext ==
    \/ TrainStart
    \/ TrainStep
    \/ CheckpointStep
    \/ \E split \in Splits : LoaderSends(split)

SpecAM == AMInit /\ [][AMNext]_vars

(***************************************************************************)
(* Claims about get_type                                                   *)
(***************************************************************************)

\* C12: get_type answers with the first marker present under the root in
\* the order .trn, .stm, index.tags.txt, .trans.txt: Vystadial_2013 if there
\* is a .trn file, else TEDLIUM if there is a .stm file, else Shtooka if there
\* is an index.tags.txt, else LibriSpeech if there is a .trans.txt, else
\* Unrecognized, whatever else is under the root.
C12_FirstMarkerWins ==
    gt_last.called =>
        LET has(marker) == marker \in gt_last.files IN
        /\ has(".trn") => gt_last.type = "Vystadial_2013"
        /\ (~has(".trn") /\ has(".stm")) => gt_last.type = "TEDLIUM"
        /\ (~has(".trn") /\ ~has(".stm") /\ has("index.tags.txt")) =>
              gt_last.type = "Shtooka"
        /\ (~has(".trn") /\ ~has(".stm") /\ ~has("index.tags.txt")
              /\ has(".trans.txt")) => gt_last.type = "LibriSpeech"
        /\ (~has(".trn") /\ ~has(".stm") /\ ~has("index.tags.txt")
              /\ ~has(".trans.txt")) => gt_last.type = "Unrecognized"

\* A root with both a .trn and a .stm file, and the other two markers too.
C12_Witness ==
    /\ gt_last.called
    /\ {".trn", ".stm", "index.tags.txt", ".trans.txt"} \subseteq gt_last.files
    /\ gt_last.type = "Vystadial_2013"

(***************************************************************************)
(* Claims about get_data_tedlium                                           *)
(***************************************************************************)

\* The line carries a skip marker in its 3rd or in its 7th field.
SkipMarked(line) ==
    line[3] = "inter_segment_gap" \/ line[7] = "ignore_time_segment_in_scoring"

\* The samples of the lines from the i-th on that the log says were kept.
RECURSIVE KeptFrom(_)
KeptFrom(i) ==
    IF i > Len(td_last.lines) THEN <<>>
    ELSE (IF td_last.log[i].kept THEN <<WavFile(td_last.lines[i])>> ELSE <<>>)
         \o KeptFrom(i + 1)

\* C15: on every non-empty line of a .stm file, a line with a skip marker in
\* its 3rd or 7th field yields neither an extraction call nor a sample; on any
\* other line the extraction is called exactly when the segment's wav file is
\* not there yet, and the sample is kept exactly when the wav file was there
\* or the extraction did not return failure.  The list returned holds the
\* kept samples in line order.
C15_ExtractIffMissingKeepUnlessFailed ==
    td_last.called =>
        /\ Len(td_last.log) = Len(td_last.lines)
        /\ \A i \in DOMAIN td_last.lines :
              LET line == td_last.lines[i]
                  did == td_last.log[i]
              IN line # <<>> =>
                   IF SkipMarked(line) THEN ~did.called /\ ~did.kept
                   ELSE /\ did.called <=> ~did.existed
                        /\ did.kept <=> (did.existed \/ td_last.extracts[i] # "False")
        /\ td_last.lines[1] # <<>> =>
              (td_last.log[1].existed <=> WavFile(td_last.lines[1]) \in td_last.pre_wavs)
        /\ [i \in DOMAIN td_last.result |-> td_last.result[i][1]] = KeptFrom(1)

\* Two lines name the same segment: the first one's extraction fails and its
\* sample is dropped, the second one's is called again, returns nothing and
\* its sample is kept.
C15_Witness ==
    /\ td_last.called
    /\ Len(td_last.lines) = 2
    /\ td_last.lines[1] = td_last.lines[2]
    /\ td_last.lines[1] # <<>>
    /\ td_last.log[1] = [existed |-> FALSE, called |-> TRUE, kept |-> FALSE]
    /\ td_last.log[2] = [existed |-> FALSE, called |-> TRUE, kept |-> TRUE]
    /\ td_last.extracts[2] = "None"
    /\ Len(td_last.result) = 1

\* A line whose wav file is there already: no extraction, sample kept.
C15_WitnessExisting ==
    /\ td_last.called
    /\ td_last.lines[1] # <<>>
    /\ td_last.log[1] = [existed |-> TRUE, called |-> FALSE, kept |-> TRUE]

(***************************************************************************)
(* Claims about DataProcessor.run                                          *)
(***************************************************************************)

\* The last call looked for no cache record or found none for its root list:
\* it was given no cache file, the file was not there, or it held a record
\* saved for another root list.
CacheMiss ==
    \/ ~dp_last.use_cache
    \/ dp_last.pre_cache.state = "absent"
    \/ dp_last.pre_cache.state = "record" /\ dp_last.pre_cache.roots # dp_last.roots

\* The samples the parsers return for the roots of a list, in root order; a
\* root of none of the four layouts has no parser and adds nothing.
RECURSIVE ParsedFrom(_)
ParsedFrom(roots) ==
    IF roots = <<>> THEN <<>>
    ELSE (IF get_type(Head(roots)) = "Unrecognized" THEN <<>>
          ELSE Corpus[Head(roots)].samples) \o ParsedFrom(Tail(roots))

HasUnrecognized(roots) ==
    \E i \in DOMAIN roots : get_type(roots[i]) = "Unrecognized"

\* C1: when a call that used the cache file returned a list, the next call
\* with the cache file returns that very list, calling no parser and neither
\* sorting nor shuffling, exactly when its root list is the first call's, same
\* elements in the same order; with another root list it scans every root
\* and saves what it returns.
C1_CacheHitIffSameRoots ==
    (dp_last.ran /\ dp_last.use_cache /\ dp_prev.with_cache) =>
        /\ ((/\ dp_last.outcome = "ok"
             /\ dp_last.data = dp_prev.data
             /\ dp_last.parser_calls = 0
             /\ dp_last.order = "none")
            <=> dp_last.roots = dp_prev.roots)
        /\ (dp_last.roots # dp_prev.roots /\ dp_last.outcome = "ok") =>
              /\ dp_last.parser_calls = Len(dp_last.roots)
              /\ dp_last.order # "none"
              /\ dp_cache = save_filelist(dp_last.roots, dp_last.data)

\* The second call has the first one's roots, asks for the other ordering, and
\* gets the first one's list, which is not in that ordering.
C1_WitnessHit ==
    /\ dp_last.ran /\ dp_last.use_cache /\ dp_prev.with_cache
    /\ dp_last.roots = dp_prev.roots
    /\ Len(dp_last.roots) = 2
    /\ dp_last.size_ordering
    /\ dp_last.outcome = "ok"
    /\ dp_last.data = dp_prev.data
    /\ dp_last.data # sorted(add_audio_file_length(dp_last.data))
    /\ dp_last.parser_calls = 0

\* C7 as stated: whenever the samples parsed from the roots of the call add up
\* to nothing, the call fails with the empty-corpus error and leaves the
\* cache file as it was.
C7_EmptyAlwaysEmptyCorpusError ==
    (dp_last.ran /\ ParsedFrom(dp_last.roots) = <<>>) =>
        /\ dp_last.outcome = "EmptyCorpus"
        /\ dp_last.data = <<>>
        /\ dp_cache = dp_last.pre_cache

\* C7, amended: a call that is not served from cache and whose roots are all
\* of one of the four layouts fails with the empty-corpus error whenever their
\* samples add up to nothing; it returns no list and leaves the cache file as
\* it was.
C7_EmptyCorpusError ==
    (/\ dp_last.ran
     /\ CacheMiss
     /\ ~HasUnrecognized(dp_last.roots)
     /\ ParsedFrom(dp_last.roots) = <<>>) =>
        /\ dp_last.outcome = "EmptyCorpus"
        /\ dp_last.data = <<>>
        /\ dp_cache = dp_last.pre_cache

\* A call on a TEDLIUM root without samples, with a cache file saved for other
\* roots, has failed.
C7_Witness ==
    /\ dp_last.ran
    /\ dp_last.roots = <<"ted">>
    /\ dp_last.use_cache
    /\ dp_last.pre_cache.state = "record"
    /\ dp_last.outcome = "EmptyCorpus"
    /\ dp_cache = dp_last.pre_cache

\* C8: a call that is not served from cache and has a root of none of the
\* four layouts anywhere in its list fails with the unknown-format error,
\* returns no list and leaves the cache file as it was.
C8_UnknownFormatError ==
    (dp_last.ran /\ CacheMiss /\ HasUnrecognized(dp_last.roots)) =>
        /\ dp_last.outcome = "UnknownFormat"
        /\ dp_last.data = <<>>
        /\ dp_cache = dp_last.pre_cache

\* The unrecognized root is the last of the list, after a root with samples,
\* and a cache file saved for other roots is there.
C8_Witness ==
    /\ dp_last.ran
    /\ Len(dp_last.roots) = 2
    /\ get_type(dp_last.roots[1]) = "LibriSpeech"
    /\ get_type(dp_last.roots[2]) = "Unrecognized"
    /\ dp_last.use_cache
    /\ dp_last.pre_cache.state = "record"
    /\ dp_last.parser_calls = 1
    /\ dp_last.outcome = "UnknownFormat"

\* C9: a call that finds an unreadable cache file goes on as after a miss: it
\* ends as the scan of its roots ends, and when the scan yields samples it
\* returns them and saves them with its roots in the cache file.
C9_UnreadableCacheIsMiss ==
    (dp_last.ran /\ dp_last.use_cache /\ dp_last.pre_cache.state = "unreadable") =>
        /\ dp_last.outcome \in {"ok", "UnknownFormat", "EmptyCorpus"}
        /\ (~HasUnrecognized(dp_last.roots) /\ ParsedFrom(dp_last.roots) # <<>>) =>
              /\ dp_last.outcome = "ok"
              /\ dp_last.parser_calls = Len(dp_last.roots)
              /\ dp_cache = save_filelist(dp_last.roots, dp_last.data)

\* The last call missed the cache, was asked to order by size, and returned.
SizeOrderedRun ==
    dp_last.ran /\ CacheMiss /\ dp_last.size_ordering /\ dp_last.outcome = "ok"

\* C11: a call that is not served from the cache and orders by size returns
\* the samples its parsers found, each one once and each with the length the
\* audio processor gives for its file, lengths never decreasing along the
\* list, and samples of equal length in the order the parsers gave them, root
\* by root.
C11_StableSizeOrder ==
    SizeOrderedRun =>
        LET parsed == ParsedFrom(dp_last.roots)
            data == dp_last.data
        IN /\ Len(data) = Len(parsed)
           /\ \A i \in DOMAIN data :
                 Len(data[i][3]) = 1 /\ data[i][3][1] = AudioLength[data[i][1]]
           /\ \E p \in Permutations(1..Len(parsed)) :
                 /\ \A i \in DOMAIN data :
                       data[i][1] = parsed[p[i]][1] /\ data[i][2] = parsed[p[i]][2]
                 /\ \A i, j \in DOMAIN data :
                       i < j =>
                          /\ data[i][3][1] <= data[j][3][1]
                          /\ data[i][3][1] = data[j][3][1] => p[i] < p[j]

\* Two samples of two roots have the same length; the one of the root named
\* first comes first although a shorter sample of the other root, parsed
\* between them, is moved to the front.
C11_Witness ==
    /\ SizeOrderedRun
    /\ dp_last.roots = <<"lib", "vys">>
    /\ Len(dp_last.data) = 3
    /\ dp_last.data[1][1] = "lib/b.flac"
    /\ dp_last.data[2][1] = "lib/a.flac"
    /\ dp_last.data[3][1] = "vys/c.wav"
    /\ dp_last.data[2][3] = dp_last.data[3][3]

(***************************************************************************)
(* Claims about HyperParameterHandler                                      *)
(***************************************************************************)

\* The last startup's configured checkpoint directory and what it found there.
LastDir == hp_last.P["checkpoint_dir"]
PreSnapshotExists == SnapshotPath(LastDir) \in DOMAIN hp_last.pre_files
PreSnapshot == hp_last.pre_files[SnapshotPath(LastDir)]
Compatible(s, P) == \A f \in ArchFields : f \in DOMAIN s /\ s[f] = P[f]
Incompatible(s, P) == \E f \in ArchFields : f \in DOMAIN s /\ s[f] # P[f]
ParentDir(path) == SubSeq(path, 1, Len(path) - 1)

\* C2: a startup that finds no snapshot at the configured checkpoint directory
\* completes, the directory exists afterwards, the snapshot there is the fresh
\* parameter set P, and getHyperParams returns P, checkpoint_dir included.
C2_NoCheckpoint ==
    (hp_last.started /\ ~PreSnapshotExists) =>
        /\ hp_last.outcome = "ok"
        /\ LastDir \in hp_dirs
        /\ SnapshotPath(LastDir) \in DOMAIN hp_files
        /\ hp_files[SnapshotPath(LastDir)] = hp_last.P
        /\ hp_last.hyper_params = hp_last.P

C2_Witness ==
    /\ hp_last.started
    /\ ~PreSnapshotExists
    /\ LastDir \notin hp_last.pre_dirs
    /\ LastDir \in hp_dirs
    /\ hp_last.outcome = "ok"

\* C3: a startup that finds a snapshot whose num_layers, hidden_size and
\* dropout equal those of P returns P unchanged, configured checkpoint
\* directory included, whatever the other fields of P and of the snapshot.
C3_CompatibleResume ==
    (hp_last.started /\ PreSnapshotExists /\ Compatible(PreSnapshot, hp_last.P)) =>
        /\ hp_last.outcome = "ok"
        /\ hp_last.hyper_params = hp_last.P

C3_Witness ==
    /\ hp_last.started
    /\ PreSnapshotExists
    /\ Compatible(PreSnapshot, hp_last.P)
    /\ PreSnapshot["learning_rate"] # hp_last.P["learning_rate"]
    /\ PreSnapshot["use_config_file_if_checkpoint_exists"]
         # hp_last.P["use_config_file_if_checkpoint_exists"]
    /\ hp_last.outcome = "ok"

\* C4: a startup that finds an incompatible snapshot, with
\* use_config_file_if_checkpoint_exists true, completes, has created a new
\* child directory of the configured one, has written there a snapshot that
\* is P in every field but checkpoint_dir, and returns P with checkpoint_dir
\* set to the child directory.
C4_IncompatibleBranch ==
    (/\ hp_last.started
     /\ PreSnapshotExists
     /\ Incompatible(PreSnapshot, hp_last.P)
     /\ hp_last.P["use_config_file_if_checkpoint_exists"]) =>
        /\ hp_last.outcome = "ok"
        /\ LET child == hp_last.hyper_params["checkpoint_dir"] IN
           /\ ParentDir(child) = LastDir
           /\ child \in hp_dirs \ hp_last.pre_dirs
           /\ SnapshotPath(child) \in DOMAIN hp_files \ DOMAIN hp_last.pre_files
           /\ hp_files[SnapshotPath(child)] = [hp_last.P EXCEPT !["checkpoint_dir"] = child]
           /\ hp_last.hyper_params = [hp_last.P EXCEPT !["checkpoint_dir"] = child]

\* C5: a startup that finds an incompatible snapshot, with
\* use_config_file_if_checkpoint_exists false, returns exactly the snapshot's
\* dictionary, and creates no directory and writes no file.
C5_IncompatibleOverwrite ==
    (/\ hp_last.started
     /\ PreSnapshotExists
     /\ Incompatible(PreSnapshot, hp_last.P)
     /\ ~hp_last.P["use_config_file_if_checkpoint_exists"]) =>
        /\ hp_last.outcome = "ok"
        /\ hp_last.hyper_params = PreSnapshot
        /\ hp_dirs = hp_last.pre_dirs
        /\ hp_files = hp_last.pre_files

C5_Witness ==
    /\ hp_last.started
    /\ PreSnapshotExists
    /\ Incompatible(PreSnapshot, hp_last.P)
    /\ ~hp_last.P["use_config_file_if_checkpoint_exists"]
    /\ PreSnapshot["learning_rate"] # hp_last.P["learning_rate"]
    /\ PreSnapshot["use_config_file_if_checkpoint_exists"]
    /\ hp_last.hyper_params = PreSnapshot

\* C6: no step removes or rewrites a snapshot file that exists, and a
\* snapshot file that a step adds lies either in the configured checkpoint
\* directory of that startup or in a directory that did not exist before it.
C6_NeverRewrites ==
    [][/\ \A p \in DOMAIN hp_files :
            p \in DOMAIN hp_files' /\ hp_files'[p] = hp_files[p]
       /\ \A p \in DOMAIN hp_files' \ DOMAIN hp_files :
            /\ ParentDir(p) \in hp_dirs'
            /\ \/ ParentDir(p) = hp_last'.P["checkpoint_dir"]
               \/ ParentDir(p) \notin hp_dirs]_vars

\* A startup has branched next to two snapshots that are still as they were.
C6_Witness ==
    /\ hp_last.started
    /\ hp_last.outcome = "ok"
    /\ hp_last.hyper_params["checkpoint_dir"] # LastDir
    /\ Cardinality(DOMAIN hp_last.pre_files) = 2
    /\ \A p \in DOMAIN hp_last.pre_files : hp_files[p] = hp_last.pre_files[p]
    /\ Cardinality(DOMAIN hp_files) = 3

\* C10: a startup that finds a snapshot file lacking num_layers, hidden_size
\* or dropout behaves as one that finds no snapshot: it completes and
\* getHyperParams returns the fresh parameter set P.
C10_MissingFieldIsNoCheckpoint ==
    (/\ hp_last.started
     /\ PreSnapshotExists
     /\ ~(ArchFields \subseteq DOMAIN PreSnapshot)) =>
        /\ hp_last.outcome = "ok"
        /\ hp_last.hyper_params = hp_last.P

\* C18: every startup that completes leaves a snapshot in the checkpoint
\* directory of the parameters getHyperParams returns, and that snapshot has
\* the num_layers, hidden_size and dropout of those parameters.
C18_EffectiveSnapshotMatches ==
    (hp_last.started /\ hp_last.outcome = "ok") =>
        LET effective == hp_last.hyper_params
            file_path == SnapshotPath(effective["checkpoint_dir"])
        IN /\ file_path \in DOMAIN hp_files
           /\ Compatible(hp_files[file_path], effective)

\* The third startup finds a snapshot of another architecture at the root,
\* after a second one has branched, and returns the snapshot's parameters.
C18_Witness ==
    /\ hp_last.started
    /\ hp_last.outcome = "ok"
    /\ hp_last.branch = "IncompatibleOverwrite"
    /\ hp_n = 3
    /\ Incompatible(hp_last.hyper_params, hp_last.P)
    /\ \E d \in hp_dirs : Len(d) = 2 /\ SnapshotPath(d) \in DOMAIN hp_files

(***************************************************************************)
(* Claims about AcousticModel.getBatch                                     *)
(***************************************************************************)

\* C17: a getBatch call on a dataset that is not empty, with batch_size at
\* least 1, comes to its end, and at its end it has batch_size samples in the
\* batch and a batch pointer from 0 to len(dataset) - 1, whatever samples it
\* passed over.
C17_GetBatchDelivers ==
    /\ <>(gb.pc = "returned")
    /\ [](gb.pc = "returned" =>
            /\ Len(gb.locals.input_files) = gb.batch_size
            /\ gb.locals.batch_counter = gb.batch_size
            /\ gb.locals.batch_pointer \in 0..(Len(gb.dataset) - 1))

(***************************************************************************)
(* Claims about AcousticModel.train and run_checkpoint                     *)
(***************************************************************************)

\* train runs with async_get_batch set.
AsyncTraining == am_pc # "idle" /\ am_params.async_get_batch

\* C13: with async_get_batch, at every point of train and run_checkpoint and
\* for each of the two splits, the loader processes started for the split
\* are at most one more than the batches received from the split's pipe;
\* the difference is the loaders still running plus the batches sent and not
\* yet received.
C13_OneLoaderInFlight ==
    AsyncTraining =>
        \A split \in Splits :
            /\ am_started[split] - am_received[split] <= 1
            /\ am_started[split] - am_received[split]
                  = Len(am_loaders[split]) + Len(am_pipes[split])

\* In the second run_checkpoint, a test loader and a train loader are both
\* under way, the test loader having been started after a receive.
C13_Witness ==
    /\ AsyncTraining
    /\ am_pc = "checkpoint"
    /\ am_ckpt.i = 1
    /\ am_train.current_step >= 2
    /\ am_started.test >= 4
    /\ am_started.test - am_received.test = 1
    /\ am_started.train - am_received.train = 1
    /\ Len(am_loaders.test) = 1
    /\ Len(am_loaders.train) = 1

\* The two lists hold the same elements, each as often in one as in the other.
SameElements(s, t) ==
    /\ Len(s) = Len(t)
    /\ \A i \in DOMAIN s :
          Cardinality({j \in DOMAIN s : s[j] = s[i]})
            = Cardinality({j \in DOMAIN t : t[j] = s[i]})

\* C14 as stated: no step of train, run_checkpoint or getBatch changes the
\* train set or the test set, and every loader process reads the list the
\* training loop reads.
C14_SetsNeverChange ==
    /\ [][am_train_set' = am_train_set /\ am_test_set' = am_test_set]_vars
    /\ [](am_pc # "idle" =>
            /\ \A k \in DOMAIN am_loaders.train :
                  am_loaders.train[k].dataset = am_train_set
            /\ \A k \in DOMAIN am_loaders.test :
                  am_loaders.test[k].dataset = am_test_set)

\* C14, amended: no step changes the test set, and no step adds elements to
\* the train set or removes any; the train set is reordered only by train, at
\* the end of a pass of its loop after which current_step is a multiple of
\* num_train_batches; a loader process keeps the list it was started with.
C14_OnlyTrainShuffles ==
    [][/\ am_test_set' = am_test_set
       /\ am_train_set' # am_train_set =>
             /\ am_pc \in {"loop", "checkpoint"}
             /\ am_pc' \in {"loop", "done"}
             /\ am_train'.num_train_batches = am_train.num_train_batches
             /\ am_train'.current_step % am_train.num_train_batches = 0
             /\ SameElements(am_train_set', am_train_set)
             /\ \A split \in Splits : \A k \in DOMAIN am_loaders[split] :
                   \E j \in DOMAIN am_loaders'[split] :
                      am_loaders'[split][j] = am_loaders[split][k]]_vars

\* The train set has been reordered while a train loader is under way, which
\* has the list in the order from before, and the test set is as it was.
C14_Witness ==
    /\ AsyncTraining
    /\ am_train_set \notin TrainSets
    /\ Len(am_loaders.train) = 1
    /\ am_loaders.train[1].dataset \in TrainSets
    /\ am_test_set \in TestSets
    /\ am_train.current_step >= 1

\* C16: with async_get_batch, every train step and every test step of a
\* run_checkpoint is run on the batch a getBatch call made at that point
\* would return: the batch from the batch pointer that came with the batch
\* before, on the list as it is.
C16_AsyncConsumesSyncBatches ==
    (AsyncTraining /\ am_step.split # "none") => am_step.batch = am_step.sync

====
